---- MODULE Spec2Model ----
(***************************************************************************)
(* whoen: per-request block/allow decisions (middleware.HandleRequest),    *)
(* the JSON block store (storage.JSONStorage, the in-memory variant with   *)
(* a periodic flush) and the enforcement adapter (blocker.Service, the     *)
(* iptables implementation), with process restarts and RestoreBlocks.      *)
(*                                                                         *)
(* Time is a discrete clock `now`; every time.Now() of one handler reads   *)
(* the same instant.  time.Time{} (the zero time) is ZeroTime, which lies  *)
(* before every instant of the clock.                                      *)
(***************************************************************************)
EXTENDS Integers, Sequences, FiniteSets, TLC

(* ------------------------------ bounds -------------------------------- *)
MaxTime == 3
MaxHits == 2
MaxGrace == 1
MaxBase == 1
MaxRules == 2
MaxN == 12
MaxDur == 3
MaxCalls == 3

(* --------------------------- program constants ------------------------ *)
\* blocker.BlockType: Timeout = iota, Ban
Timeout == 0
Ban == 1
\* time.Time{}: the zero instant, used as the permanent marker of the index
ZeroTime == 0

\* matcher.Whitelist (one representative) and the addresses of the model:
\* a plain client and a whitelisted one
Whitelist == {"127.0.0.1"}
IPs == {"203.0.113.5", "127.0.0.1"}
Clients == IPs \ Whitelist
\* matcher.Patterns (one representative) and the request paths of the model
Patterns == {"/.env"}
Paths == {"/.env", "/index.html"}

Modes == {"linear", "geometric"}
SystemTypes == {"linux", "plan9"}
\* outcome of the INPUT-chain and OUTPUT-chain commands of one invocation
CmdOutcomes == [in : BOOLEAN, out : BOOLEAN]
Configs == [GracePeriod : 0..MaxGrace, TimeoutEnabled : BOOLEAN,
            TimeoutDuration : 1..MaxBase, TimeoutIncrease : Modes]
\* orders in which a Go map of addresses may be ranged over
Orders == {o \in [1..Cardinality(Clients) -> Clients] :
             \A i, j \in DOMAIN o : i # j => o[i] # o[j]}

VARIABLES
  now,      \* the clock
  options,  \* Middleware.options: GracePeriod, TimeoutEnabled, ...
  phase,    \* "running" | "down" (process gone) | "restored" (RestoreBlocks ran)
  mem,      \* JSONStorage.blockedIPs: address -> BlockStatus
  file,     \* the persisted blocked-IPs file: a set of BlockStatus
  idx,      \* blocker.Service.blockedIPs of the middleware: address -> expiry
  fw,       \* host packet filter: address -> number of INPUT / OUTPUT drop rules
  sysType,  \* blocker.Service.systemType
  hits,     \* history: suspicious hits recorded per address (IncrementRequestCount calls)
  timed,    \* history: timed blocks applied per address by the grace test
  expiry,   \* history: the expiry of the latest of them (ZeroTime: none yet)
  ctx,      \* the HandleRequest calls in progress: goroutine -> its position and locals
  last      \* history: the last operation, its inputs and what it returned

vars == <<now, options, phase, mem, file, idx, fw, sysType, hits, timed, expiry, ctx, last>>

(* ------------------------------ helpers ------------------------------- *)
EmptyMap == [x \in {} |-> 0]
MapSet(m, k, v) == [x \in (DOMAIN m) \cup {k} |-> IF x = k THEN v ELSE m[x]]
MapDel(m, k) == [x \in (DOMAIN m) \ {k} |-> m[x]]

After(t, u) == t > u
Before(t, u) == t < u
IsZero(t) == t = ZeroTime

NoRules == [ip \in IPs |-> [in |-> 0, out |-> 0]]
\* the value a nil *BlockStatus stands for; never read when found = FALSE
NilStatus == [ip |-> "", until |-> ZeroTime, rc |-> 0, tc |-> 0, perm |-> FALSE, path |-> ""]

(* ------------------------------ matcher ------------------------------- *)
\* variant: an empty whitelist
NoWhitelist(ip) == FALSE

\* variant: the whitelist gives way to an entry in the adapter's index
WhitelistedUnlessIndexed(ip) == ip \in Whitelist /\ ip \notin DOMAIN idx

IsWhitelisted(ip) == ip \in Whitelist
IsMalicious(path) == path \in Patterns

\* the goroutines serving requests, and a goroutine with no call in progress
Contexts == {"g1", "g2"}
Idle == [pc |-> "idle", ip |-> "", path |-> "", found |-> FALSE,
         status |-> NilStatus, ret |-> ""]
NoCalls == [c \in Contexts |-> Idle]

(* ------------------------- storage.JSONStorage ------------------------ *)
\* json.MarshalIndent of the map's values: the array, up to its order
Marshal(m) == {m[ip] : ip \in DOMAIN m}
\* json.Unmarshal and the rebuild of the map keyed by each element's IP
Unmarshal(f) == [ip \in {r.ip : r \in f} |-> CHOOSE r \in f : r.ip = ip]

\* Save: the file is rewritten from the map; a failed write leaves it as it was
Save(m, f, diskOk) ==
  IF diskOk THEN [file |-> Marshal(m), err |-> FALSE]
  ELSE [file |-> f, err |-> TRUE]

Load(f) == Unmarshal(f)

\* variant: the read takes no account of IsPermanent
ReadExpiredIgnoresPermanent(status, t) == After(t, status.until)

\* the expiry test of the read (json.go:60 and :73)
ReadExpired(status, t) == ~status.perm /\ After(t, status.until)

IsIPBlocked(m, ip, t) ==
  IF ip \notin DOMAIN m
  THEN [mem |-> m, blocked |-> FALSE, found |-> FALSE, status |-> NilStatus]
  ELSE IF ReadExpired(m[ip], t)
       THEN [mem |-> MapDel(m, ip), blocked |-> FALSE, found |-> TRUE, status |-> m[ip]]
       ELSE [mem |-> m, blocked |-> TRUE, found |-> TRUE, status |-> m[ip]]

BlockIP(m, f, ip, until, isPermanent, path, diskOk) ==
  LET status == IF ip \in DOMAIN m
                THEN [m[ip] EXCEPT !.until = until, !.perm = isPermanent, !.path = path]
                ELSE [ip |-> ip, until |-> until, rc |-> 1, tc |-> 0,
                      perm |-> isPermanent, path |-> path]
      m1 == MapSet(m, ip, status)
      sv == Save(m1, f, diskOk)
  IN [mem |-> m1, file |-> sv.file, err |-> sv.err]

UnblockIP(m, f, ip, diskOk) ==
  LET m1 == MapDel(m, ip)
      sv == Save(m1, f, diskOk)
  IN [mem |-> m1, file |-> sv.file, err |-> sv.err]

GetBlockedIPs(m) == Marshal(m)

\* variant: the record is created without the first hit counted
IncrementRequestCountFromZero(m, ip, path) ==
  IF ip \in DOMAIN m
  THEN MapSet(m, ip, [m[ip] EXCEPT !.rc = @ + 1, !.path = path])
  ELSE MapSet(m, ip, [ip |-> ip, until |-> ZeroTime, rc |-> 0, tc |-> 0,
                      perm |-> FALSE, path |-> path])

IncrementRequestCount(m, ip, path) ==
  IF ip \in DOMAIN m
  THEN MapSet(m, ip, [m[ip] EXCEPT !.rc = @ + 1, !.path = path])
  ELSE MapSet(m, ip, [ip |-> ip, until |-> ZeroTime, rc |-> 1, tc |-> 0,
                      perm |-> FALSE, path |-> path])

IncrementTimeoutCount(m, ip) ==
  IF ip \in DOMAIN m
  THEN MapSet(m, ip, [m[ip] EXCEPT !.tc = @ + 1])
  ELSE m

\* variant: a sweep that also removes a record at the instant it ends
SweepExpiredInclusive(status, t) == ~status.perm /\ t >= status.until

\* the expiry test of the sweep (json.go:225)
SweepExpired(status, t) == ~status.perm /\ After(t, status.until)

StorageCleanupExpired(m, f, t, diskOk) ==
  LET m1 == [ip \in {a \in DOMAIN m : ~SweepExpired(m[a], t)} |-> m[ip]]
      sv == Save(m1, f, diskOk)
  IN [mem |-> m1, file |-> sv.file, err |-> sv.err]

(* --------------------------- blocker.Service -------------------------- *)
\* iptables -I INPUT, then -I OUTPUT; the second is not tried when the first fails
blockIPLinux(rules, ip, cmd) ==
  IF ~cmd.in THEN [fw |-> rules, err |-> TRUE]
  ELSE LET r1 == [rules EXCEPT ![ip].in = @ + 1]
       IN IF ~cmd.out THEN [fw |-> r1, err |-> TRUE]
          ELSE [fw |-> [r1 EXCEPT ![ip].out = @ + 1], err |-> FALSE]

\* iptables -D INPUT and -D OUTPUT, both always run; -D removes one matching
\* rule and fails when the chain holds none
unblockIPLinux(rules, ip, cmd) ==
  LET inErr == ~cmd.in \/ rules[ip].in = 0
      r1 == IF inErr THEN rules ELSE [rules EXCEPT ![ip].in = @ - 1]
      outErr == ~cmd.out \/ rules[ip].out = 0
      r2 == IF outErr THEN r1 ELSE [r1 EXCEPT ![ip].out = @ - 1]
  IN [fw |-> r2, err |-> inErr \/ outErr]

\* variant: only a permanent entry is kept
BlockKeepsPermanentOnly(ix, ip, blockType, duration, t) ==
  ip \in DOMAIN ix /\ IsZero(ix[ip])

\* the early return of Block: an existing permanent entry, or a Timeout that
\* would end before the existing entry does
BlockKeepsExisting(ix, ip, blockType, duration, t) ==
  /\ ip \in DOMAIN ix
  /\ \/ IsZero(ix[ip])
     \/ blockType = Timeout /\ Before(t + duration, ix[ip])

\* variant: Ban stored with an expiry like a Timeout
BlockBanAsTimed(ix, rules, sys, ip, blockType, duration, t, cmd) ==
  IF BlockKeepsExisting(ix, ip, blockType, duration, t)
  THEN [idx |-> ix, fw |-> rules, err |-> FALSE, issued |-> FALSE]
  ELSE LET os == IF sys = "linux" THEN blockIPLinux(rules, ip, cmd)
                 ELSE [fw |-> rules, err |-> TRUE]
       IN IF os.err
          THEN [idx |-> ix, fw |-> os.fw, err |-> TRUE, issued |-> sys = "linux"]
          ELSE [idx |-> MapSet(ix, ip, t + duration),
                fw |-> os.fw, err |-> FALSE, issued |-> TRUE]

\* variant: the linux commands are run whatever the system type
BlockOnAnySystem(ix, rules, sys, ip, blockType, duration, t, cmd) ==
  IF BlockKeepsExisting(ix, ip, blockType, duration, t)
  THEN [idx |-> ix, fw |-> rules, err |-> FALSE, issued |-> FALSE]
  ELSE LET os == blockIPLinux(rules, ip, cmd)
       IN IF os.err
          THEN [idx |-> ix, fw |-> os.fw, err |-> TRUE, issued |-> TRUE]
          ELSE [idx |-> MapSet(ix, ip, IF blockType = Ban THEN ZeroTime ELSE t + duration),
                fw |-> os.fw, err |-> FALSE, issued |-> TRUE]

Block(ix, rules, sys, ip, blockType, duration, t, cmd) ==
  IF BlockKeepsExisting(ix, ip, blockType, duration, t)
  THEN [idx |-> ix, fw |-> rules, err |-> FALSE, issued |-> FALSE]
  ELSE LET os == IF sys = "linux" THEN blockIPLinux(rules, ip, cmd)
                 ELSE [fw |-> rules, err |-> TRUE]
       IN IF os.err
          THEN [idx |-> ix, fw |-> os.fw, err |-> TRUE, issued |-> sys = "linux"]
          ELSE [idx |-> MapSet(ix, ip, IF blockType = Ban THEN ZeroTime ELSE t + duration),
                fw |-> os.fw, err |-> FALSE, issued |-> TRUE]

\* variant: the removal commands run whether or not the index holds the address
UnblockWithoutLookup(ix, rules, sys, ip, cmd) ==
  LET os == IF sys = "linux" THEN unblockIPLinux(rules, ip, cmd)
            ELSE [fw |-> rules, err |-> TRUE]
  IN IF os.err
     THEN [idx |-> ix, fw |-> os.fw, err |-> TRUE]
     ELSE [idx |-> MapDel(ix, ip), fw |-> os.fw, err |-> FALSE]

Unblock(ix, rules, sys, ip, cmd) ==
  IF ip \notin DOMAIN ix
  THEN [idx |-> ix, fw |-> rules, err |-> FALSE]
  ELSE LET os == IF sys = "linux" THEN unblockIPLinux(rules, ip, cmd)
                 ELSE [fw |-> rules, err |-> TRUE]
       IN IF os.err
          THEN [idx |-> ix, fw |-> os.fw, err |-> TRUE]
          ELSE [idx |-> MapDel(ix, ip), fw |-> os.fw, err |-> FALSE]

\* variant: only a permanent entry counts as a block
IsBlockedPermanentOnly(ix, ip, t) ==
  IF ip \notin DOMAIN ix THEN [idx |-> ix, blocked |-> FALSE]
  ELSE IF IsZero(ix[ip]) THEN [idx |-> ix, blocked |-> TRUE]
  ELSE [idx |-> MapDel(ix, ip), blocked |-> FALSE]

\* an expired entry is dropped from the index; no command is issued for it
IsBlocked(ix, ip, t) ==
  IF ip \notin DOMAIN ix THEN [idx |-> ix, blocked |-> FALSE]
  ELSE IF IsZero(ix[ip]) \/ Before(t, ix[ip]) THEN [idx |-> ix, blocked |-> TRUE]
  ELSE [idx |-> MapDel(ix, ip), blocked |-> FALSE]

\* the range loop of Service.CleanupExpired over the index in the order `order`;
\* the first failing command ends it
RECURSIVE BlockerCleanupLoop(_, _, _, _, _, _)
BlockerCleanupLoop(order, ix, rules, sys, t, cmd) ==
  IF order = << >> THEN [idx |-> ix, fw |-> rules, err |-> FALSE]
  ELSE LET ip == Head(order)
           rest == Tail(order)
       IN IF ip \in DOMAIN ix /\ ~IsZero(ix[ip]) /\ After(t, ix[ip])
          THEN IF sys # "linux"
               THEN BlockerCleanupLoop(rest, ix, rules, sys, t, cmd)
               ELSE LET os == unblockIPLinux(rules, ip, cmd)
                    IN IF os.err THEN [idx |-> ix, fw |-> os.fw, err |-> TRUE]
                       ELSE BlockerCleanupLoop(rest, MapDel(ix, ip), os.fw, sys, t, cmd)
          ELSE BlockerCleanupLoop(rest, ix, rules, sys, t, cmd)

BlockerCleanupExpired(order, ix, rules, sys, t, cmd) ==
  BlockerCleanupLoop(order, ix, rules, sys, t, cmd)

(* ------------------------- middleware.Middleware ---------------------- *)
\* multiplier *= 2, timeoutCount times
RECURSIVE Multiplier(_)
Multiplier(i) == IF i = 0 THEN 1 ELSE 2 * Multiplier(i - 1)

\* variant: the linear formula in every mode
calculateLinearOnly(opts, timeoutCount) ==
  opts.TimeoutDuration * (timeoutCount + 1)

calculateTimeoutDuration(opts, timeoutCount) ==
  IF timeoutCount = 0 THEN opts.TimeoutDuration
  ELSE IF opts.TimeoutIncrease = "geometric"
       THEN opts.TimeoutDuration * Multiplier(timeoutCount)
       ELSE opts.TimeoutDuration * (timeoutCount + 1)

\* what HandleRequest returns at each of its return statements
Decision(ret) ==
  CASE ret = "whitelisted"    -> [blocked |-> FALSE, err |-> FALSE]   \* :123
    [] ret = "alreadyBlocked" -> [blocked |-> TRUE,  err |-> FALSE]   \* :135
    [] ret = "notMalicious"   -> [blocked |-> FALSE, err |-> FALSE]   \* :141
    [] ret = "storageBlocked" -> [blocked |-> TRUE,  err |-> FALSE]   \* :168
    [] ret = "blockError"     -> [blocked |-> FALSE, err |-> TRUE]    \* :182, :203
    [] ret = "timedOut"       -> [blocked |-> TRUE,  err |-> FALSE]   \* :215 via :174
    [] ret = "banned"         -> [blocked |-> TRUE,  err |-> FALSE]   \* :215 via :198
    [] ret = "counted"        -> [blocked |-> FALSE, err |-> FALSE]   \* :219

\* variant: a stored block of any kind is installed again as a permanent one
ResyncAlwaysBan(ix, rules, sys, ip, status, t, cmd) ==
  Block(ix, rules, sys, ip, Ban, 0, t, cmd)

\* the branch taken once the storage read says the address is blocked (:158-169)
ResyncBlock(ix, rules, sys, ip, status, t, cmd) ==
  IF status.perm
  THEN Block(ix, rules, sys, ip, Ban, 0, t, cmd)
  ELSE Block(ix, rules, sys, ip, Timeout, status.until - t, t, cmd)

\* the grace test (:172)
GraceExceeded(opts, found, status) == found /\ status.rc > opts.GracePeriod

\* the timed branch (:174-197)
TimeoutBranch(opts, m, f, ix, rules, sys, ip, path, status, t, cmd, diskOk) ==
  LET duration == calculateTimeoutDuration(opts, status.tc)
      b == Block(ix, rules, sys, ip, Timeout, duration, t, cmd)
  IN IF b.err
     THEN [mem |-> m, file |-> f, idx |-> b.idx, fw |-> b.fw, ret |-> "blockError",
           n |-> status.tc, dur |-> duration, saveErr |-> FALSE]
     ELSE LET s1 == BlockIP(m, f, ip, t + duration, FALSE, path, diskOk)
              m2 == IncrementTimeoutCount(s1.mem, ip)
          IN [mem |-> m2, file |-> s1.file, idx |-> b.idx, fw |-> b.fw, ret |-> "timedOut",
              n |-> status.tc, dur |-> duration, saveErr |-> s1.err]

\* variant: the permanent branch storing a non-permanent record
BanBranchNotPermanent(m, f, ix, rules, sys, ip, path, status, t, cmd, diskOk) ==
  LET b == Block(ix, rules, sys, ip, Ban, 0, t, cmd)
  IN IF b.err
     THEN [mem |-> m, file |-> f, idx |-> b.idx, fw |-> b.fw, ret |-> "blockError",
           n |-> status.tc, dur |-> 0, saveErr |-> FALSE]
     ELSE LET s1 == BlockIP(m, f, ip, ZeroTime, FALSE, path, diskOk)
          IN [mem |-> s1.mem, file |-> s1.file, idx |-> b.idx, fw |-> b.fw, ret |-> "banned",
              n |-> status.tc, dur |-> 0, saveErr |-> s1.err]

\* the permanent branch (:198-213)
BanBranch(m, f, ix, rules, sys, ip, path, status, t, cmd, diskOk) ==
  LET b == Block(ix, rules, sys, ip, Ban, 0, t, cmd)
  IN IF b.err
     THEN [mem |-> m, file |-> f, idx |-> b.idx, fw |-> b.fw, ret |-> "blockError",
           n |-> status.tc, dur |-> 0, saveErr |-> FALSE]
     ELSE LET s1 == BlockIP(m, f, ip, ZeroTime, TRUE, path, diskOk)
          IN [mem |-> s1.mem, file |-> s1.file, idx |-> b.idx, fw |-> b.fw, ret |-> "banned",
              n |-> status.tc, dur |-> 0, saveErr |-> s1.err]

\* HandleRequest from the whitelist test on.  ret names the return statement
\* reached, counted whether IncrementRequestCount was called, crossed whether
\* the grace test passed, n the TimeoutCount read, dur the duration handed to Block
HandleRequest(opts, m, f, ix, rules, sys, ip, path, t, cmd, diskOk) ==
  LET same == [mem |-> m, file |-> f, idx |-> ix, fw |-> rules, n |-> 0, dur |-> 0,
               saveErr |-> FALSE]
      early == [counted |-> FALSE, crossed |-> FALSE]
  IN IF IsWhitelisted(ip) THEN same @@ early @@ [ret |-> "whitelisted"]
     ELSE LET chk == IsBlocked(ix, ip, t)
          IN IF chk.blocked THEN same @@ early @@ [ret |-> "alreadyBlocked"]
             ELSE IF ~IsMalicious(path)
                  THEN [same EXCEPT !.idx = chk.idx] @@ early @@ [ret |-> "notMalicious"]
                  ELSE LET m1 == IncrementRequestCount(m, ip, path)
                           rd == IsIPBlocked(m1, ip, t)
                       IN IF rd.blocked
                          THEN LET b == ResyncBlock(chk.idx, rules, sys, ip, rd.status, t, cmd)
                               IN [mem |-> rd.mem, file |-> f, idx |-> b.idx, fw |-> b.fw,
                                   ret |-> "storageBlocked", n |-> rd.status.tc,
                                   dur |-> IF rd.status.perm THEN 0 ELSE rd.status.until - t,
                                   saveErr |-> FALSE, counted |-> TRUE, crossed |-> FALSE]
                          ELSE IF GraceExceeded(opts, rd.found, rd.status)
                               THEN (IF opts.TimeoutEnabled
                                     THEN TimeoutBranch(opts, rd.mem, f, chk.idx, rules, sys, ip,
                                                        path, rd.status, t, cmd, diskOk)
                                     ELSE BanBranch(rd.mem, f, chk.idx, rules, sys, ip,
                                                    path, rd.status, t, cmd, diskOk))
                                    @@ [counted |-> TRUE, crossed |-> TRUE]
                               ELSE [same EXCEPT !.mem = rd.mem, !.idx = chk.idx]
                                    @@ [counted |-> TRUE, crossed |-> FALSE, ret |-> "counted"]

\* the first loop of Middleware.CleanupExpired (:316-323): Unblock for every
\* listed record that has expired; a failure is logged and the loop goes on
RECURSIVE SweepUnblockLoop(_, _, _, _, _, _, _)
SweepUnblockLoop(order, listed, ix, rules, sys, t, cmd) ==
  IF order = << >> THEN [idx |-> ix, fw |-> rules]
  ELSE LET ip == Head(order)
       IN IF ip \in DOMAIN listed /\ ~listed[ip].perm /\ After(t, listed[ip].until)
          THEN LET u == Unblock(ix, rules, sys, ip, cmd)
               IN SweepUnblockLoop(Tail(order), listed, u.idx, u.fw, sys, t, cmd)
          ELSE SweepUnblockLoop(Tail(order), listed, ix, rules, sys, t, cmd)

CleanupExpired(m, f, ix, rules, sys, t, order, cmd, diskOk) ==
  LET listed == Unmarshal(GetBlockedIPs(m))
      u == SweepUnblockLoop(order, listed, ix, rules, sys, t, cmd)
      st == StorageCleanupExpired(m, f, t, diskOk)
  IN IF st.err
     THEN [mem |-> st.mem, file |-> st.file, idx |-> u.idx, fw |-> u.fw, err |-> TRUE]
     ELSE LET b == BlockerCleanupExpired(order, u.idx, u.fw, sys, t, cmd)
          IN [mem |-> st.mem, file |-> st.file, idx |-> b.idx, fw |-> b.fw, err |-> b.err]

\* variant: a record whose BlockedUntil is the zero time is taken for a
\* permanent one, as the adapter's index reads a zero expiration
RECURSIVE RestoreLoopZeroIsPermanent(_, _, _, _, _, _, _, _, _)
RestoreLoopZeroIsPermanent(order, recs, ix, rules, sys, t, cmd, restored, skipped) ==
  IF order = << >>
  THEN [idx |-> ix, fw |-> rules, err |-> FALSE, restored |-> restored, skipped |-> skipped]
  ELSE LET ip == Head(order)
           rest == Tail(order)
           perm == ip \in DOMAIN recs /\ (recs[ip].perm \/ IsZero(recs[ip].until))
       IN IF ip \notin DOMAIN recs
          THEN RestoreLoopZeroIsPermanent(rest, recs, ix, rules, sys, t, cmd, restored, skipped)
          ELSE IF ~perm /\ recs[ip].until - t <= 0
          THEN RestoreLoopZeroIsPermanent(rest, recs, ix, rules, sys, t, cmd, restored,
                                          skipped + 1)
          ELSE LET b == IF perm
                        THEN Block(ix, rules, sys, ip, Ban, 0, t, cmd)
                        ELSE Block(ix, rules, sys, ip, Timeout, recs[ip].until - t, t, cmd)
               IN IF b.err
                  THEN [idx |-> b.idx, fw |-> b.fw, err |-> TRUE,
                        restored |-> restored, skipped |-> skipped]
                  ELSE RestoreLoopZeroIsPermanent(rest, recs, b.idx, b.fw, sys, t, cmd,
                                                  restored + 1, skipped)

\* the loop of RestoreBlocks (:365-392) over the records of the file, on the
\* blocker instance RestoreBlocks creates for itself
RECURSIVE RestoreLoop(_, _, _, _, _, _, _, _, _)
RestoreLoop(order, recs, ix, rules, sys, t, cmd, restored, skipped) ==
  IF order = << >>
  THEN [idx |-> ix, fw |-> rules, err |-> FALSE, restored |-> restored, skipped |-> skipped]
  ELSE LET ip == Head(order)
           rest == Tail(order)
       IN IF ip \notin DOMAIN recs
          THEN RestoreLoop(rest, recs, ix, rules, sys, t, cmd, restored, skipped)
          ELSE IF ~recs[ip].perm /\ After(t, recs[ip].until)
          THEN RestoreLoop(rest, recs, ix, rules, sys, t, cmd, restored, skipped + 1)
          ELSE IF ~recs[ip].perm /\ recs[ip].until - t <= 0
          THEN RestoreLoop(rest, recs, ix, rules, sys, t, cmd, restored, skipped + 1)
          ELSE LET b == IF recs[ip].perm
                        THEN Block(ix, rules, sys, ip, Ban, 0, t, cmd)
                        ELSE Block(ix, rules, sys, ip, Timeout, recs[ip].until - t, t, cmd)
               IN IF b.err
                  THEN [idx |-> b.idx, fw |-> b.fw, err |-> TRUE,
                        restored |-> restored, skipped |-> skipped]
                  ELSE RestoreLoop(rest, recs, b.idx, b.fw, sys, t, cmd, restored + 1, skipped)

\* variant: the loop ends after the first record
RestoreBlocksFirstOnly(f, rules, sys, t, order, cmd) ==
  RestoreLoop(SubSeq(order, 1, 1), Load(f), EmptyMap, rules, sys, t, cmd, 0, 0)

\* RestoreBlocks: a storage instance loaded from the file and a new blocker
\* instance (an empty index), both local to the call
RestoreBlocks(f, rules, sys, t, order, cmd) ==
  RestoreLoop(order, Load(f), EmptyMap, rules, sys, t, cmd, 0, 0)

\* middleware.New as whoen.NewWithConfig calls it: a storage loaded from the
\* file and a new blocker instance
New(f) == [mem |-> Load(f), idx |-> EmptyMap]

(* ------------------------------ the system ---------------------------- *)
AllOk == [in |-> TRUE, out |-> TRUE]

RulesWithinBound(rules) ==
  \A ip \in IPs : rules[ip].in <= MaxRules /\ rules[ip].out <= MaxRules

Init ==
  /\ now = 1
  /\ options \in Configs
  /\ phase = "running"
  /\ mem = EmptyMap
  /\ file = {}
  /\ idx = EmptyMap
  /\ fw = NoRules
  /\ sysType = "linux"
  /\ hits = [ip \in IPs |-> 0]
  /\ timed = [ip \in IPs |-> 0]
  /\ expiry = [ip \in IPs |-> ZeroTime]
  /\ ctx = NoCalls
  /\ last = [op |-> "Init"]

\* one inbound request, decided by HandleRequest.  A failing command or a
\* failing write is drawn only where the handler runs one
Request(ip, path, cmd, diskOk) ==
  /\ phase = "running"
  /\ LET r == HandleRequest(options, mem, file, idx, fw, sysType, ip, path, now, cmd, diskOk)
         r0 == HandleRequest(options, mem, file, idx, fw, sysType, ip, path, now, AllOk, TRUE)
     IN /\ (cmd = AllOk /\ diskOk) \/ r # r0
        /\ r.counted => hits[ip] < MaxHits
        /\ RulesWithinBound(r.fw)
        /\ mem' = r.mem
        /\ file' = r.file
        /\ idx' = r.idx
        /\ fw' = r.fw
        /\ hits' = IF r.counted THEN [hits EXCEPT ![ip] = @ + 1] ELSE hits
        /\ timed' = IF r.ret = "timedOut" THEN [timed EXCEPT ![ip] = @ + 1] ELSE timed
        /\ expiry' = IF r.ret = "timedOut" THEN [expiry EXCEPT ![ip] = now + r.dur] ELSE expiry
        /\ last' = [op |-> "HandleRequest", ip |-> ip, path |-> path, ret |-> r.ret,
                    n |-> r.n, dur |-> r.dur, saveErr |-> r.saveErr]
  /\ UNCHANGED <<now, options, phase, sysType, ctx>>

\* the cleanup ticker fires (or the sweep is called by hand)
Sweep(order, cmd, diskOk) ==
  /\ phase = "running"
  /\ LET r == CleanupExpired(mem, file, idx, fw, sysType, now, order, cmd, diskOk)
         r0 == CleanupExpired(mem, file, idx, fw, sysType, now, order, AllOk, diskOk)
     IN /\ cmd = AllOk \/ r # r0
        /\ mem' = r.mem
        /\ file' = r.file
        /\ idx' = r.idx
        /\ fw' = r.fw
        /\ last' = [op |-> "CleanupExpired", err |-> r.err,
                    removed |-> (DOMAIN mem) \ (DOMAIN r.mem)]
  /\ UNCHANGED <<now, options, phase, sysType, hits, timed, expiry, ctx>>

\* the save ticker of NewJSONStorage fires (:38-39)
PeriodicSave(diskOk) ==
  /\ phase = "running"
  /\ file' = Save(mem, file, diskOk).file
  /\ last' = [op |-> "Save", err |-> ~diskOk]
  /\ UNCHANGED <<now, options, phase, mem, idx, fw, sysType, hits, timed, expiry, ctx>>

Tick ==
  /\ now < MaxTime
  /\ now' = now + 1
  /\ last' = [op |-> "Tick"]
  /\ UNCHANGED <<options, phase, mem, file, idx, fw, sysType, hits, timed, expiry, ctx>>

\* the process ends: its memory is gone, the file stays; the packet filter
\* keeps its rules unless the host went down with it
Crash(reboot) ==
  /\ phase = "running"
  /\ phase' = "down"
  /\ mem' = EmptyMap
  /\ idx' = EmptyMap
  /\ fw' = IF reboot THEN NoRules ELSE fw
  /\ last' = [op |-> "Crash"]
  /\ UNCHANGED <<now, options, file, sysType, hits, timed, expiry, ctx>>

\* main calls whoen.RestoreBlocks before it creates the middleware
StartRestore(order, cmd) ==
  /\ phase = "down"
  /\ LET r == RestoreBlocks(file, fw, sysType, now, order, cmd)
         r0 == RestoreBlocks(file, fw, sysType, now, order, AllOk)
     IN /\ cmd = AllOk \/ r # r0
        /\ RulesWithinBound(r.fw)
        /\ fw' = r.fw
        /\ phase' = IF r.err THEN "restoreFailed" ELSE "restored"
        /\ last' = [op |-> "RestoreBlocks", err |-> r.err, restored |-> r.restored,
                    skipped |-> r.skipped, idx |-> r.idx]
  /\ UNCHANGED <<now, options, mem, file, idx, sysType, hits, timed, expiry, ctx>>

\* main creates the middleware (with or without RestoreBlocks before it)
StartNew ==
  /\ phase \in {"down", "restored", "restoreFailed"}
  /\ phase' = "running"
  /\ mem' = New(file).mem
  /\ idx' = New(file).idx
  /\ last' = [op |-> "New", afterRestore |-> phase = "restored"]
  /\ UNCHANGED <<now, options, file, fw, sysType, hits, timed, expiry, ctx>>

Next ==
  \/ \E ip \in IPs, path \in Paths, cmd \in CmdOutcomes, diskOk \in BOOLEAN :
       Request(ip, path, cmd, diskOk)
  \/ \E order \in Orders, cmd \in CmdOutcomes, diskOk \in BOOLEAN : Sweep(order, cmd, diskOk)
  \/ \E diskOk \in BOOLEAN : PeriodicSave(diskOk)
  \/ Tick
  \/ \E reboot \in BOOLEAN : Crash(reboot)
  \/ \E order \in Orders, cmd \in CmdOutcomes : StartRestore(order, cmd)
  \/ StartNew

Spec == Init /\ [][Next]_vars

\* the same system on a host where every command and every write succeeds
NextNoFault ==
  \/ \E ip \in IPs, path \in Paths : Request(ip, path, AllOk, TRUE)
  \/ \E order \in Orders : Sweep(order, AllOk, TRUE)
  \/ PeriodicSave(TRUE)
  \/ Tick
  \/ \E reboot \in BOOLEAN : Crash(reboot)
  \/ \E order \in Orders : StartRestore(order, AllOk)
  \/ StartNew

SpecNoFault == Init /\ [][NextNoFault]_vars

\* one process lifetime on such a host: the process never ends
NextLifetime ==
  \/ \E ip \in IPs, path \in Paths : Request(ip, path, AllOk, TRUE)
  \/ \E order \in Orders : Sweep(order, AllOk, TRUE)
  \/ PeriodicSave(TRUE)
  \/ Tick

SpecLifetime == Init /\ [][NextLifetime]_vars

(* ------------------- the enforcement adapter on its own --------------- *)
\* blocker.Service driven through its exported methods by a caller of its own;
\* the middleware options (the defaults, one base duration) play no part in it
DefaultOptions == [GracePeriod |-> 3, TimeoutEnabled |-> TRUE,
                   TimeoutDuration |-> 1, TimeoutIncrease |-> "linear"]

InitBlocker ==
  /\ now = 1
  /\ options = DefaultOptions
  /\ phase = "running"
  /\ mem = EmptyMap
  /\ file = {}
  /\ idx = EmptyMap
  /\ fw = NoRules
  /\ sysType \in SystemTypes
  /\ hits = [ip \in IPs |-> 0]
  /\ timed = [ip \in IPs |-> 0]
  /\ expiry = [ip \in IPs |-> ZeroTime]
  /\ ctx = NoCalls
  /\ last = [op |-> "Init"]

\* what the index holds for ip
Had(ix, ip) ==
  IF ip \notin DOMAIN ix THEN "absent" ELSE IF IsZero(ix[ip]) THEN "permanent" ELSE "timed"

ApiBlock(ip, blockType, duration, cmd) ==
  /\ LET r == Block(idx, fw, sysType, ip, blockType, duration, now, cmd)
     IN /\ RulesWithinBound(r.fw)
        /\ idx' = r.idx
        /\ fw' = r.fw
        /\ last' = [op |-> "Block", ip |-> ip, blockType |-> blockType,
                    duration |-> duration, err |-> r.err, had |-> Had(idx, ip),
                    prev |-> IF ip \in DOMAIN idx THEN idx[ip] ELSE ZeroTime]
  /\ UNCHANGED <<now, options, phase, mem, file, sysType, hits, timed, expiry, ctx>>

ApiUnblock(ip, cmd) ==
  /\ LET r == Unblock(idx, fw, sysType, ip, cmd)
     IN /\ idx' = r.idx
        /\ fw' = r.fw
        /\ last' = [op |-> "Unblock", ip |-> ip, err |-> r.err, had |-> Had(idx, ip)]
  /\ UNCHANGED <<now, options, phase, mem, file, sysType, hits, timed, expiry, ctx>>

ApiIsBlocked(ip) ==
  /\ LET r == IsBlocked(idx, ip, now)
     IN /\ idx' = r.idx
        /\ last' = [op |-> "IsBlocked", ip |-> ip, blocked |-> r.blocked]
  /\ UNCHANGED <<now, options, phase, mem, file, fw, sysType, hits, timed, expiry, ctx>>

ApiCleanupExpired(order, cmd) ==
  /\ LET r == BlockerCleanupExpired(order, idx, fw, sysType, now, cmd)
     IN /\ idx' = r.idx
        /\ fw' = r.fw
        /\ last' = [op |-> "blocker.CleanupExpired", err |-> r.err]
  /\ UNCHANGED <<now, options, phase, mem, file, sysType, hits, timed, expiry, ctx>>

NextBlocker ==
  \/ \E ip \in Clients, blockType \in {Timeout, Ban}, duration \in 0..MaxDur,
        cmd \in CmdOutcomes : ApiBlock(ip, blockType, duration, cmd)
  \/ \E ip \in Clients, cmd \in CmdOutcomes : ApiUnblock(ip, cmd)
  \/ \E ip \in Clients : ApiIsBlocked(ip)
  \/ \E order \in Orders, cmd \in CmdOutcomes : ApiCleanupExpired(order, cmd)
  \/ Tick

SpecBlocker == InitBlocker /\ [][NextBlocker]_vars

\* the adapter on a host where every command succeeds
NextBlockerNoFault ==
  \/ \E ip \in Clients, blockType \in {Timeout, Ban}, duration \in 0..MaxDur :
       ApiBlock(ip, blockType, duration, AllOk)
  \/ \E ip \in Clients : ApiUnblock(ip, AllOk)
  \/ \E ip \in Clients : ApiIsBlocked(ip)
  \/ \E order \in Orders : ApiCleanupExpired(order, AllOk)
  \/ Tick

SpecBlockerNoFault == InitBlocker /\ [][NextBlockerNoFault]_vars

(* ------------------------- RestoreBlocks alone ------------------------ *)
\* records a blocked-IPs file can hold for ip: a permanent one (BlockIP with
\* time.Time{}), a timed one, or one still carrying the zero BlockedUntil of
\* IncrementRequestCount
FileRecords(ip) ==
  {[ip |-> ip, until |-> u, rc |-> 1, tc |-> 0, perm |-> FALSE, path |-> "/.env"] :
     u \in 0..(MaxTime + 1)}
  \cup {[ip |-> ip, until |-> ZeroTime, rc |-> 1, tc |-> 0, perm |-> TRUE, path |-> "/.env"]}

\* the files over the addresses of the model: at most one record per address
Files ==
  {f \in SUBSET (UNION {FileRecords(ip) : ip \in IPs}) :
     \A r1, r2 \in f : r1.ip = r2.ip => r1 = r2}

\* orders in which the records of a file may be ranged over
AllOrders == {o \in [1..Cardinality(IPs) -> IPs] :
                \A i, j \in DOMAIN o : i # j => o[i] # o[j]}

InitRestore ==
  /\ now \in 1..MaxTime
  /\ options = DefaultOptions
  /\ phase = "down"
  /\ mem = EmptyMap
  /\ file \in Files
  /\ idx = EmptyMap
  /\ fw = NoRules
  /\ sysType \in SystemTypes
  /\ hits = [ip \in IPs |-> 0]
  /\ timed = [ip \in IPs |-> 0]
  /\ expiry = [ip \in IPs |-> ZeroTime]
  /\ ctx = NoCalls
  /\ last = [op |-> "Init"]

NextRestore == \E order \in AllOrders, cmd \in CmdOutcomes : StartRestore(order, cmd)

SpecRestore == InitRestore /\ [][NextRestore]_vars

(* --------------------- the duration calculation alone ----------------- *)
InitCalc ==
  /\ now = 1
  /\ options \in Configs
  /\ phase = "running"
  /\ mem = EmptyMap
  /\ file = {}
  /\ idx = EmptyMap
  /\ fw = NoRules
  /\ sysType = "linux"
  /\ hits = [ip \in IPs |-> 0]
  /\ timed = [ip \in IPs |-> 0]
  /\ expiry = [ip \in IPs |-> ZeroTime]
  /\ ctx = NoCalls
  /\ last = [op |-> "Init"]

Calc(timeoutCount) ==
  /\ last' = [op |-> "calculateTimeoutDuration", n |-> timeoutCount,
              dur |-> calculateTimeoutDuration(options, timeoutCount)]
  /\ UNCHANGED <<now, options, phase, mem, file, idx, fw, sysType, hits, timed, expiry, ctx>>

NextCalc == \E timeoutCount \in 0..MaxN : Calc(timeoutCount)

SpecCalc == InitCalc /\ [][NextCalc]_vars

(* ------------------ HandleRequest calls running together -------------- *)
\* Two goroutines each serve one request.  No lock spans HandleRequest: each
\* call into the blocker or the storage takes that object's mutex for itself,
\* so a step below is one such critical section and the steps of the two
\* goroutines interleave freely.  Every command and every write succeeds.
InitConc ==
  /\ now = 1
  /\ options \in Configs
  /\ phase = "running"
  /\ mem = EmptyMap
  /\ file = {}
  /\ idx = EmptyMap
  /\ fw = NoRules
  /\ sysType = "linux"
  /\ hits = [ip \in IPs |-> 0]
  /\ timed = [ip \in IPs |-> 0]
  /\ expiry = [ip \in IPs |-> ZeroTime]
  /\ ctx = NoCalls
  /\ last = [op |-> "Init"]

Returned(c, ret) == [ctx EXCEPT ![c].pc = "done", ![c].ret = ret]

\* what follows the storage read when it says "not blocked": the grace test
\* (:172), and the log line of :218 that reads status.RequestCount of a nil status
AfterRead(c, found, status) ==
  IF GraceExceeded(options, found, status)
  THEN [ctx EXCEPT ![c].pc = "block", ![c].found = found, ![c].status = status]
  ELSE IF ~found THEN Returned(c, "panic")
  ELSE [Returned(c, "counted") EXCEPT ![c].found = found, ![c].status = status]

\* the request arrives; the whitelist test (:121-124)
CtxStart(c, ip, path) ==
  /\ ctx[c].pc = "idle"
  /\ ctx' = IF IsWhitelisted(ip)
            THEN [ctx EXCEPT ![c].pc = "done", ![c].ip = ip, ![c].path = path,
                             ![c].ret = "whitelisted"]
            ELSE [ctx EXCEPT ![c].pc = "isBlocked", ![c].ip = ip, ![c].path = path]
  /\ last' = [op |-> "start", g |-> c]
  /\ UNCHANGED <<now, options, phase, mem, file, idx, fw, sysType, hits, timed, expiry>>

\* blocker.IsBlocked (:127-136) and the pattern test (:139-142)
CtxIsBlocked(c) ==
  /\ ctx[c].pc = "isBlocked"
  /\ LET chk == IsBlocked(idx, ctx[c].ip, now)
     IN /\ idx' = chk.idx
        /\ ctx' = IF chk.blocked THEN Returned(c, "alreadyBlocked")
                  ELSE IF ~IsMalicious(ctx[c].path) THEN Returned(c, "notMalicious")
                  ELSE [ctx EXCEPT ![c].pc = "increment"]
  /\ last' = [op |-> "IsBlocked", g |-> c]
  /\ UNCHANGED <<now, options, phase, mem, file, fw, sysType, hits, timed, expiry>>

\* storage.IncrementRequestCount (:145)
CtxIncrement(c) ==
  /\ ctx[c].pc = "increment"
  /\ mem' = IncrementRequestCount(mem, ctx[c].ip, ctx[c].path)
  /\ ctx' = [ctx EXCEPT ![c].pc = "read"]
  /\ last' = [op |-> "IncrementRequestCount", g |-> c]
  /\ UNCHANGED <<now, options, phase, file, idx, fw, sysType, hits, timed, expiry>>

\* storage.IsIPBlocked under the read lock (json.go:51-60, :81-82): an expired
\* record makes it give the read lock up to take the write lock
CtxRead(c) ==
  /\ ctx[c].pc = "read"
  /\ LET ip == ctx[c].ip
     IN ctx' = IF ip \notin DOMAIN mem THEN AfterRead(c, FALSE, NilStatus)
               ELSE IF ReadExpired(mem[ip], now) THEN [ctx EXCEPT ![c].pc = "readLocked"]
               ELSE [ctx EXCEPT ![c].pc = "resync", ![c].found = TRUE, ![c].status = mem[ip]]
  /\ last' = [op |-> "IsIPBlocked", g |-> c]
  /\ UNCHANGED <<now, options, phase, mem, file, idx, fw, sysType, hits, timed, expiry>>

\* storage.IsIPBlocked under the write lock (json.go:63-79): the record is read
\* again, and deleted when it is still expired
CtxReadLocked(c) ==
  /\ ctx[c].pc = "readLocked"
  /\ LET rd == IsIPBlocked(mem, ctx[c].ip, now)
     IN /\ mem' = rd.mem
        /\ ctx' = AfterRead(c, rd.found, rd.status)
  /\ last' = [op |-> "IsIPBlocked.delete", g |-> c]
  /\ UNCHANGED <<now, options, phase, file, idx, fw, sysType, hits, timed, expiry>>

\* the branch for an address blocked in storage (:158-169)
CtxResync(c) ==
  /\ ctx[c].pc = "resync"
  /\ LET b == ResyncBlock(idx, fw, sysType, ctx[c].ip, ctx[c].status, now, AllOk)
     IN /\ idx' = b.idx
        /\ fw' = b.fw
  /\ ctx' = Returned(c, "storageBlocked")
  /\ last' = [op |-> "Block", g |-> c]
  /\ UNCHANGED <<now, options, phase, mem, file, sysType, hits, timed, expiry>>

\* blocker.Block of the grace branch (:176 or :200)
CtxBlock(c) ==
  /\ ctx[c].pc = "block"
  /\ LET b == IF options.TimeoutEnabled
              THEN Block(idx, fw, sysType, ctx[c].ip, Timeout,
                         calculateTimeoutDuration(options, ctx[c].status.tc), now, AllOk)
              ELSE Block(idx, fw, sysType, ctx[c].ip, Ban, 0, now, AllOk)
     IN /\ idx' = b.idx
        /\ fw' = b.fw
        /\ ctx' = IF b.err THEN Returned(c, "blockError") ELSE [ctx EXCEPT ![c].pc = "store"]
  /\ last' = [op |-> "Block", g |-> c]
  /\ UNCHANGED <<now, options, phase, mem, file, sysType, hits, timed, expiry>>

\* storage.BlockIP of the grace branch (:186 or :207)
CtxStore(c) ==
  /\ ctx[c].pc = "store"
  /\ LET s1 == IF options.TimeoutEnabled
               THEN BlockIP(mem, file, ctx[c].ip,
                            now + calculateTimeoutDuration(options, ctx[c].status.tc),
                            FALSE, ctx[c].path, TRUE)
               ELSE BlockIP(mem, file, ctx[c].ip, ZeroTime, TRUE, ctx[c].path, TRUE)
     IN /\ mem' = s1.mem
        /\ file' = s1.file
  /\ ctx' = IF options.TimeoutEnabled THEN [ctx EXCEPT ![c].pc = "incrementTimeout"]
            ELSE Returned(c, "banned")
  /\ last' = [op |-> "BlockIP", g |-> c]
  /\ UNCHANGED <<now, options, phase, idx, fw, sysType, hits, timed, expiry>>

\* storage.IncrementTimeoutCount (:192)
CtxIncrementTimeout(c) ==
  /\ ctx[c].pc = "incrementTimeout"
  /\ mem' = IncrementTimeoutCount(mem, ctx[c].ip)
  /\ ctx' = Returned(c, "timedOut")
  /\ last' = [op |-> "IncrementTimeoutCount", g |-> c]
  /\ UNCHANGED <<now, options, phase, file, idx, fw, sysType, hits, timed, expiry>>

NextConc ==
  \/ \E c \in Contexts, ip \in IPs, path \in Paths : CtxStart(c, ip, path)
  \/ \E c \in Contexts : CtxIsBlocked(c)
  \/ \E c \in Contexts : CtxIncrement(c)
  \/ \E c \in Contexts : CtxRead(c)
  \/ \E c \in Contexts : CtxReadLocked(c)
  \/ \E c \in Contexts : CtxResync(c)
  \/ \E c \in Contexts : CtxBlock(c)
  \/ \E c \in Contexts : CtxStore(c)
  \/ \E c \in Contexts : CtxIncrementTimeout(c)

SpecConc == InitConc /\ [][NextConc]_vars

(* ------------- IncrementRequestCount calls running together ----------- *)
\* Two goroutines call storage.IncrementRequestCount, each up to MaxCalls
\* times in all per address.  The call takes s.mutex, reads the record, writes
\* it back with the count raised, and releases the mutex on return.
InMutex(c) == ctx[c].pc \in {"incRead", "incWrite", "incUnlock"}

\* variant: the mutex is not taken
MutexNotTaken(c) == TRUE

\* s.mutex.Lock() can return for c: no other goroutine holds the mutex
MutexFree(c) == \A d \in Contexts \ {c} : ~InMutex(d)

\* calls for ip made and not yet returned
InProgress(ip) == {c \in Contexts : ctx[c].pc # "idle" /\ ctx[c].ip = ip}

InitInc ==
  /\ now = 1
  /\ options = DefaultOptions
  /\ phase = "running"
  /\ mem = EmptyMap
  /\ file = {}
  /\ idx = EmptyMap
  /\ fw = NoRules
  /\ sysType = "linux"
  /\ hits = [ip \in IPs |-> 0]
  /\ timed = [ip \in IPs |-> 0]
  /\ expiry = [ip \in IPs |-> ZeroTime]
  /\ ctx = NoCalls
  /\ last = [op |-> "Init"]

\* the call is made
IncCall(c, ip, path) ==
  /\ ctx[c].pc = "idle"
  /\ hits[ip] + Cardinality(InProgress(ip)) < MaxCalls
  /\ ctx' = [ctx EXCEPT ![c] = [Idle EXCEPT !.pc = "incLock", !.ip = ip, !.path = path]]
  /\ UNCHANGED <<now, options, phase, mem, file, idx, fw, sysType, hits, timed, expiry, last>>

\* s.mutex.Lock() (:134)
IncLock(c) ==
  /\ ctx[c].pc = "incLock"
  /\ MutexFree(c)
  /\ ctx' = [ctx EXCEPT ![c].pc = "incRead"]
  /\ UNCHANGED <<now, options, phase, mem, file, idx, fw, sysType, hits, timed, expiry, last>>

\* status, exists := s.blockedIPs[ip] (:137)
IncRead(c) ==
  /\ ctx[c].pc = "incRead"
  /\ LET ip == ctx[c].ip
     IN ctx' = [ctx EXCEPT ![c].pc = "incWrite",
                           ![c].found = ip \in DOMAIN mem,
                           ![c].status = IF ip \in DOMAIN mem THEN mem[ip] ELSE NilStatus]
  /\ UNCHANGED <<now, options, phase, mem, file, idx, fw, sysType, hits, timed, expiry, last>>

\* the record is written back from the copy read, or created (:138-149)
IncWrite(c) ==
  /\ ctx[c].pc = "incWrite"
  /\ LET ip == ctx[c].ip
         read == IF ctx[c].found THEN MapSet(mem, ip, ctx[c].status) ELSE MapDel(mem, ip)
     IN mem' = MapSet(mem, ip, IncrementRequestCount(read, ip, ctx[c].path)[ip])
  /\ ctx' = [ctx EXCEPT ![c].pc = "incUnlock"]
  /\ UNCHANGED <<now, options, phase, file, idx, fw, sysType, hits, timed, expiry, last>>

\* the deferred s.mutex.Unlock() and the return (:135, :151).  overlapped:
\* this call, or an earlier one for the address, ran while another was in progress
IncReturn(c) ==
  /\ ctx[c].pc = "incUnlock"
  /\ LET ip == ctx[c].ip
     IN /\ hits' = [hits EXCEPT ![ip] = @ + 1]
        /\ last' = [op |-> "IncrementRequestCount", ip |-> ip,
                    overlapped |-> \/ InProgress(ip) # {c}
                                   \/ /\ last.op = "IncrementRequestCount"
                                      /\ last.ip = ip
                                      /\ last.overlapped]
  /\ ctx' = [ctx EXCEPT ![c] = Idle]
  /\ UNCHANGED <<now, options, phase, mem, file, idx, fw, sysType, timed, expiry>>

NextInc ==
  \/ \E c \in Contexts, ip \in IPs, path \in Paths : IncCall(c, ip, path)
  \/ \E c \in Contexts : IncLock(c)
  \/ \E c \in Contexts : IncRead(c)
  \/ \E c \in Contexts : IncWrite(c)
  \/ \E c \in Contexts : IncReturn(c)

SpecInc == InitInc /\ [][NextInc]_vars

(* ---------------------- the client address of a request --------------- *)
\* A header value or RemoteAddr is a sequence of pieces: an address, a port,
\* or one of the bytes getClientIP looks for.  Header.Get of a header that is
\* not set is the empty string.
Join(s) == IF s = << >> THEN ""
           ELSE IF Len(s) = 1 THEN s[1]
           ELSE IF Len(s) = 2 THEN s[1] \o s[2]
           ELSE s[1] \o s[2] \o s[3]

\* split(s, ','): the pieces between the commas, empty ones included (:278-290)
RECURSIVE split(_, _)
split(s, sep) ==
  IF \A i \in DOMAIN s : s[i] # sep THEN << s >>
  ELSE LET i == CHOOSE j \in DOMAIN s : s[j] = sep /\ \A k \in 1..(j - 1) : s[k] # sep
       IN << SubSeq(s, 1, i - 1) >> \o split(SubSeq(s, i + 1, Len(s)), sep)

\* trim(s): leading and trailing spaces removed (:293-303)
RECURSIVE trim(_)
trim(s) ==
  IF s = << >> THEN s
  ELSE IF Head(s) = " " THEN trim(Tail(s))
  ELSE IF s[Len(s)] = " " THEN trim(SubSeq(s, 1, Len(s) - 1))
  ELSE s

\* splitAndTrim: the trimmed items that are not empty (:267-276)
splitAndTrim(s) == SelectSeq([i \in DOMAIN split(s, ",") |-> trim(split(s, ",")[i])],
                             LAMBDA item : item # << >>)

\* net.SplitHostPort for addresses without brackets: one colon, host before it
SplitHostPort(s) ==
  LET colons == {i \in DOMAIN s : s[i] = ":"}
  IN IF Cardinality(colons) # 1 THEN [err |-> TRUE, host |-> << >>]
     ELSE [err |-> FALSE, host |-> SubSeq(s, 1, (CHOOSE i \in colons : TRUE) - 1)]

getClientIP(r) ==
  IF r.xff # << >> /\ Len(splitAndTrim(r.xff)) > 0 THEN Join(splitAndTrim(r.xff)[1])
  ELSE IF r.xrip # << >> THEN Join(r.xrip)
  ELSE IF SplitHostPort(r.remoteAddr).err THEN Join(r.remoteAddr)
  ELSE Join(SplitHostPort(r.remoteAddr).host)

\* the requests of the model: X-Forwarded-For, X-Real-IP, RemoteAddr, URL path
XffValues == { << >>, << " ", ",", " " >>, << " ", "127.0.0.1", "," >> }
XripValues == { << >>, << "127.0.0.1" >> }
RemoteAddrs == { << >>, << ":", "8080" >>, << "127.0.0.1", ":", "8080" >> }
Requests == [xff : XffValues, xrip : XripValues, remoteAddr : RemoteAddrs, path : Paths]

\* the addresses of the model and every address getClientIP yields for them
Addresses == IPs \cup {getClientIP(r) : r \in Requests}

InitServe ==
  /\ now = 1
  /\ options \in Configs
  /\ phase = "running"
  /\ mem = EmptyMap
  /\ file = {}
  /\ idx = EmptyMap
  /\ fw = [ip \in Addresses |-> [in |-> 0, out |-> 0]]
  /\ sysType = "linux"
  /\ hits = [ip \in Addresses |-> 0]
  /\ timed = [ip \in Addresses |-> 0]
  /\ expiry = [ip \in Addresses |-> ZeroTime]
  /\ ctx = NoCalls
  /\ last = [op |-> "Init"]

\* HandleRequest on the address getClientIP resolves (:114)
Serve(r, cmd) == Request(getClientIP(r), r.path, cmd, TRUE)

NextServe ==
  \/ \E r \in Requests, cmd \in CmdOutcomes : Serve(r, cmd)
  \/ Tick

SpecServe == InitServe /\ [][NextServe]_vars

(* ------------------- a restart without RestoreBlocks ------------------ *)
\* The process is started on a blocked-IPs file left by an earlier run, and
\* whoen.RestoreBlocks is never called: main creates the middleware and
\* requests arrive.  The packet filter is empty (the host went down too) or
\* still holds the rules of the blocks on file.
RulesOnFile(f) ==
  [ip \in IPs |-> IF \E r \in f : r.ip = ip /\ (r.perm \/ ~IsZero(r.until))
                  THEN [in |-> 1, out |-> 1] ELSE [in |-> 0, out |-> 0]]

InitRestart ==
  /\ now \in 1..MaxTime
  /\ options \in Configs
  /\ phase = "down"
  /\ mem = EmptyMap
  /\ file \in {f \in Files : \A r \in f : r.ip \in Clients}
  /\ idx = EmptyMap
  /\ fw \in {NoRules, RulesOnFile(file)}
  /\ sysType = "linux"
  /\ hits = [ip \in IPs |-> 0]
  /\ timed = [ip \in IPs |-> 0]
  /\ expiry = [ip \in IPs |-> ZeroTime]
  /\ ctx = NoCalls
  /\ last = [op |-> "Init"]

NextRestart ==
  \/ StartNew
  \/ \E ip \in IPs, path \in Paths, cmd \in CmdOutcomes, diskOk \in BOOLEAN :
       Request(ip, path, cmd, diskOk)

SpecRestart == InitRestart /\ [][NextRestart]_vars

(* ------------- a sweep running together with HandleRequest ------------ *)
\* The cleanup goroutine of New runs Middleware.CleanupExpired once while
\* goroutine g1 serves one request.  The sweep takes no lock of its own: its
\* steps are the calls it makes into the storage and the blocker.  The process
\* has served one request for /.env from the client at time 1 before; every
\* command and every write succeeds.
Served(opts) ==
  HandleRequest(opts, EmptyMap, {}, EmptyMap, NoRules, "linux",
                CHOOSE ip \in Clients : TRUE, "/.env", 1, AllOk, TRUE)

InitSweep ==
  /\ now \in 1..MaxTime
  /\ options \in Configs
  /\ phase = "running"
  /\ mem = Served(options).mem
  /\ file = Served(options).file
  /\ idx = Served(options).idx
  /\ fw = Served(options).fw
  /\ sysType = "linux"
  /\ hits = [ip \in IPs |-> 0]
  /\ timed = [ip \in IPs |-> 0]
  /\ expiry = [ip \in IPs |-> ZeroTime]
  /\ ctx = [c \in Contexts \cup {"sweeper"} |->
              IF c = "sweeper" THEN [pc |-> "idle", todo |-> << >>] ELSE Idle]
  /\ last = [op |-> "Init"]

\* GetBlockedIPs and the test of :317 on the copy it returned: the addresses
\* the loop will call Unblock for, in the order the slice has them
SweepList(order) ==
  /\ ctx["sweeper"].pc = "idle"
  /\ LET listed == Unmarshal(GetBlockedIPs(mem))
     IN ctx' = [ctx EXCEPT !["sweeper"] =
                  [pc |-> "unblock",
                   todo |-> SelectSeq(order, LAMBDA ip :
                              /\ ip \in DOMAIN listed
                              /\ ~listed[ip].perm
                              /\ After(now, listed[ip].until))]]
  /\ last' = [op |-> "GetBlockedIPs"]
  /\ UNCHANGED <<now, options, phase, mem, file, idx, fw, sysType, hits, timed, expiry>>

\* one m.blocker.Unblock of the loop (:319)
SweepUnblock ==
  /\ ctx["sweeper"].pc = "unblock"
  /\ ctx["sweeper"].todo # << >>
  /\ LET u == Unblock(idx, fw, sysType, Head(ctx["sweeper"].todo), AllOk)
     IN /\ idx' = u.idx
        /\ fw' = u.fw
  /\ ctx' = [ctx EXCEPT !["sweeper"].todo = Tail(@)]
  /\ last' = [op |-> "Unblock"]
  /\ UNCHANGED <<now, options, phase, mem, file, sysType, hits, timed, expiry>>

\* m.storage.CleanupExpired once the loop is over (:326)
SweepStorage ==
  /\ ctx["sweeper"].pc = "unblock"
  /\ ctx["sweeper"].todo = << >>
  /\ LET st == StorageCleanupExpired(mem, file, now, TRUE)
     IN /\ mem' = st.mem
        /\ file' = st.file
  /\ ctx' = [ctx EXCEPT !["sweeper"].pc = "blocker"]
  /\ last' = [op |-> "storage.CleanupExpired"]
  /\ UNCHANGED <<now, options, phase, idx, fw, sysType, hits, timed, expiry>>

\* m.blocker.CleanupExpired (:331) and the return
SweepBlocker(order) ==
  /\ ctx["sweeper"].pc = "blocker"
  /\ LET b == BlockerCleanupExpired(order, idx, fw, sysType, now, AllOk)
     IN /\ idx' = b.idx
        /\ fw' = b.fw
  /\ ctx' = [ctx EXCEPT !["sweeper"].pc = "done"]
  /\ last' = [op |-> "blocker.CleanupExpired"]
  /\ UNCHANGED <<now, options, phase, mem, file, sysType, hits, timed, expiry>>

NextSweep ==
  \/ \E ip \in IPs, path \in Paths : CtxStart("g1", ip, path)
  \/ CtxIsBlocked("g1")
  \/ CtxIncrement("g1")
  \/ CtxRead("g1")
  \/ CtxReadLocked("g1")
  \/ CtxResync("g1")
  \/ CtxBlock("g1")
  \/ CtxStore("g1")
  \/ CtxIncrementTimeout("g1")
  \/ \E order \in Orders : SweepList(order)
  \/ SweepUnblock
  \/ SweepStorage
  \/ \E order \in Orders : SweepBlocker(order)

SpecSweep == InitSweep /\ [][NextSweep]_vars

(* ------------- requests from addresses on the whitelist --------------- *)
\* The store and the adapter may hold a record and an entry for a whitelisted
\* address: left in the file by a run with another whitelist, or put into the
\* adapter by a caller of its Block.  Requests from whitelisted addresses
\* arrive; commands and writes may fail.
IndexesOf(ips) ==
  UNION {[S -> 0..(MaxTime + 1)] : S \in SUBSET ips}

InitWhitelisted ==
  /\ now = 1
  /\ options \in Configs
  /\ phase = "running"
  /\ file \in {f \in Files : \A r \in f : r.ip \in Whitelist}
  /\ mem = Load(file)
  /\ idx \in IndexesOf(Whitelist)
  /\ fw = [ip \in IPs |-> IF ip \in DOMAIN idx THEN [in |-> 1, out |-> 1]
                          ELSE [in |-> 0, out |-> 0]]
  /\ sysType = "linux"
  /\ hits = [ip \in IPs |-> 0]
  /\ timed = [ip \in IPs |-> 0]
  /\ expiry = [ip \in IPs |-> ZeroTime]
  /\ ctx = NoCalls
  /\ last = [op |-> "Init"]

NextWhitelisted ==
  \/ \E ip \in Whitelist, path \in Paths, cmd \in CmdOutcomes, diskOk \in BOOLEAN :
       Request(ip, path, cmd, diskOk)
  \/ Tick

SpecWhitelisted == InitWhitelisted /\ [][NextWhitelisted]_vars

(* ------------------------ the block store on its own ------------------ *)
\* storage.JSONStorage driven through its exported methods by a caller of its
\* own, one call at a time
StoreIsIPBlocked(ip) ==
  /\ LET rd == IsIPBlocked(mem, ip, now)
     IN /\ mem' = rd.mem
        /\ last' = [op |-> "IsIPBlocked", ip |-> ip, blocked |-> rd.blocked]
  /\ UNCHANGED <<now, options, phase, file, idx, fw, sysType, hits, timed, expiry, ctx>>

StoreBlockIP(ip, until, isPermanent, path, diskOk) ==
  /\ LET r == BlockIP(mem, file, ip, until, isPermanent, path, diskOk)
     IN /\ mem' = r.mem
        /\ file' = r.file
        /\ last' = [op |-> "BlockIP", ip |-> ip, err |-> r.err]
  /\ UNCHANGED <<now, options, phase, idx, fw, sysType, hits, timed, expiry, ctx>>

StoreUnblockIP(ip, diskOk) ==
  /\ LET r == UnblockIP(mem, file, ip, diskOk)
     IN /\ mem' = r.mem
        /\ file' = r.file
        /\ last' = [op |-> "UnblockIP", ip |-> ip, err |-> r.err]
  /\ UNCHANGED <<now, options, phase, idx, fw, sysType, hits, timed, expiry, ctx>>

StoreCleanupExpired(diskOk) ==
  /\ LET r == StorageCleanupExpired(mem, file, now, diskOk)
     IN /\ mem' = r.mem
        /\ file' = r.file
        /\ last' = [op |-> "storage.CleanupExpired", err |-> r.err]
  /\ UNCHANGED <<now, options, phase, idx, fw, sysType, hits, timed, expiry, ctx>>

\* the counters of a record are Go ints; the calls below stop at MaxCalls
StoreIncrementRequestCount(ip, path) ==
  /\ ip \in DOMAIN mem => mem[ip].rc < MaxCalls
  /\ mem' = IncrementRequestCount(mem, ip, path)
  /\ last' = [op |-> "IncrementRequestCount", ip |-> ip]
  /\ UNCHANGED <<now, options, phase, file, idx, fw, sysType, hits, timed, expiry, ctx>>

StoreIncrementTimeoutCount(ip) ==
  /\ ip \in DOMAIN mem => mem[ip].tc < MaxCalls
  /\ mem' = IncrementTimeoutCount(mem, ip)
  /\ last' = [op |-> "IncrementTimeoutCount", ip |-> ip]
  /\ UNCHANGED <<now, options, phase, file, idx, fw, sysType, hits, timed, expiry, ctx>>

\* NewJSONStorage on the file the store wrote: the process has been restarted
StoreLoad ==
  /\ mem' = Load(file)
  /\ last' = [op |-> "Load"]
  /\ UNCHANGED <<now, options, phase, file, idx, fw, sysType, hits, timed, expiry, ctx>>

InitStore ==
  /\ now = 1
  /\ options = DefaultOptions
  /\ phase = "running"
  /\ mem = EmptyMap
  /\ file = {}
  /\ idx = EmptyMap
  /\ fw = NoRules
  /\ sysType = "linux"
  /\ hits = [ip \in IPs |-> 0]
  /\ timed = [ip \in IPs |-> 0]
  /\ expiry = [ip \in IPs |-> ZeroTime]
  /\ ctx = NoCalls
  /\ last = [op |-> "Init"]

NextStore ==
  \/ \E ip \in Clients, path \in Paths : StoreIncrementRequestCount(ip, path)
  \/ \E ip \in Clients, isPermanent \in BOOLEAN, path \in Paths, diskOk \in BOOLEAN :
       StoreBlockIP(ip, IF isPermanent THEN ZeroTime ELSE now + options.TimeoutDuration,
                    isPermanent, path, diskOk)
  \/ \E ip \in Clients : StoreIncrementTimeoutCount(ip)
  \/ \E ip \in Clients, diskOk \in BOOLEAN : StoreUnblockIP(ip, diskOk)
  \/ \E ip \in Clients : StoreIsIPBlocked(ip)
  \/ \E diskOk \in BOOLEAN : StoreCleanupExpired(diskOk)
  \/ \E diskOk \in BOOLEAN : PeriodicSave(diskOk)
  \/ StoreLoad
  \/ Tick

SpecStore == InitStore /\ [][NextStore]_vars

(* --------------- reads and sweeps over standing blocks ---------------- *)
\* The store and the adapter of one process, called directly: blocks are
\* applied to the client (a timed one of the base duration, or a permanent
\* one) in the adapter and in the store, time passes, and the reads, the
\* sweeps of each object, the sweep of the middleware, the periodic save and
\* the two unblock calls run in any order.  Commands and writes may fail.
InitStanding ==
  /\ now = 1
  /\ options = DefaultOptions
  /\ phase = "running"
  /\ mem = EmptyMap
  /\ file = {}
  /\ idx = EmptyMap
  /\ fw = NoRules
  /\ sysType = "linux"
  /\ hits = [ip \in IPs |-> 0]
  /\ timed = [ip \in IPs |-> 0]
  /\ expiry = [ip \in IPs |-> ZeroTime]
  /\ ctx = NoCalls
  /\ last = [op |-> "Init"]

NextStanding ==
  \/ \E ip \in Clients, blockType \in {Timeout, Ban} :
       ApiBlock(ip, blockType, options.TimeoutDuration, AllOk)
  \/ \E ip \in Clients, isPermanent \in BOOLEAN :
       StoreBlockIP(ip, IF isPermanent THEN ZeroTime ELSE now + options.TimeoutDuration,
                    isPermanent, "/.env", TRUE)
  \/ \E ip \in Clients : StoreIsIPBlocked(ip)
  \/ \E ip \in Clients : ApiIsBlocked(ip)
  \/ \E diskOk \in BOOLEAN : StoreCleanupExpired(diskOk)
  \/ \E order \in Orders, cmd \in CmdOutcomes : ApiCleanupExpired(order, cmd)
  \/ \E order \in Orders, cmd \in CmdOutcomes, diskOk \in BOOLEAN : Sweep(order, cmd, diskOk)
  \/ \E diskOk \in BOOLEAN : PeriodicSave(diskOk)
  \/ \E ip \in Clients, diskOk \in BOOLEAN : StoreUnblockIP(ip, diskOk)
  \/ \E ip \in Clients, cmd \in CmdOutcomes : ApiUnblock(ip, cmd)
  \/ Tick

SpecStanding == InitStanding /\ [][NextStanding]_vars

(* ------------------ the two mutexes, call by call --------------------- *)
\* Two request goroutines, the cleanup goroutine and the save goroutine of
\* one process, with the mutex of the store (s.mutex) and of the adapter
\* (b.mutex) taken and released by each call as the code does.  ctx holds,
\* next to the goroutines, the two mutexes: who holds each, in which mode, and
\* the holder's position when it took it.  A call is three steps: the Lock or
\* RLock at its top, its body, and the Unlock or RUnlock on its way out.
\* Every command and every write returns, with success.  The process has
\* served one request for /.env from the client at time 1; it is now MaxTime.
\* The escalation mode plays no part in the locking: it is linear.
Mutexes == {"s.mutex", "b.mutex"}
Goroutines == Contexts \cup {"sweeper"}

\* the mutex and the mode the call at c's position takes on entry
Needs(c) ==
  LET pc == ctx[c].pc
  IN IF c = "sweeper"
     THEN CASE pc = "idle" -> <<"s.mutex", "r">>                          \* json.go:121
            [] pc = "unblock" /\ ctx[c].todo # << >> -> <<"b.mutex", "w">> \* service.go:101
            [] pc = "unblock" /\ ctx[c].todo = << >> -> <<"s.mutex", "w">> \* json.go:220
            [] pc = "blocker" -> <<"b.mutex", "w">>                       \* service.go:153
            [] OTHER -> <<"", "">>
     ELSE CASE pc = "isBlocked" -> <<"b.mutex", "r">>                     \* service.go:133
            [] pc = "increment" -> <<"s.mutex", "w">>                     \* json.go:134
            [] pc = "read" -> <<"s.mutex", "r">>                          \* json.go:51
            [] pc = "readLocked" -> <<"s.mutex", "w">>                    \* json.go:63
            [] pc \in {"resync", "block"} -> <<"b.mutex", "w">>           \* service.go:55
            [] pc = "store" -> <<"s.mutex", "w">>                         \* json.go:86
            [] pc = "incrementTimeout" -> <<"s.mutex", "w">>              \* json.go:156
            [] OTHER -> <<"", "">>

Holds(c, m) == c \in DOMAIN ctx[m]
HoldsNone(c) == \A m \in Mutexes : ~Holds(c, m)

\* sync.RWMutex: Lock waits for every holder to leave, RLock for a writer
CanAcquire(c, m, mode) ==
  IF mode = "w" THEN DOMAIN ctx[m] = {}
  ELSE \A d \in DOMAIN ctx[m] : ctx[m][d].mode = "r"

\* variant: the RUnlock before the write lock of IsIPBlocked is missing
UnlockedExceptUpgrade(c, m) ==
  ctx[m][c].at # ctx[c] /\ ctx[c].pc # "readLocked"

\* c has reached the Unlock or RUnlock of the call it took m for: the deferred
\* one on return, or the explicit ones of IsIPBlocked (json.go:55, :62, :80)
Unlocked(c, m) == ctx[m][c].at # ctx[c]

InitLive ==
  /\ now = MaxTime
  /\ options \in {o \in Configs : o.TimeoutIncrease = "linear"}
  /\ phase = "running"
  /\ mem = Served(options).mem
  /\ file = Served(options).file
  /\ idx = Served(options).idx
  /\ fw = Served(options).fw
  /\ sysType = "linux"
  /\ hits = [ip \in IPs |-> 0]
  /\ timed = [ip \in IPs |-> 0]
  /\ expiry = [ip \in IPs |-> ZeroTime]
  /\ ctx = [c \in Goroutines \cup Mutexes |->
              IF c \in Mutexes THEN EmptyMap
              ELSE IF c = "sweeper" THEN [pc |-> "idle", todo |-> << >>]
              ELSE Idle]
  /\ last = [op |-> "Init"]

\* the Lock or RLock at the top of the call c is about to make
Acquire(c) ==
  /\ HoldsNone(c)
  /\ Needs(c)[1] # ""
  /\ CanAcquire(c, Needs(c)[1], Needs(c)[2])
  /\ ctx' = [ctx EXCEPT ![Needs(c)[1]] = MapSet(@, c, [mode |-> Needs(c)[2], at |-> ctx[c]])]
  /\ UNCHANGED <<now, options, phase, mem, file, idx, fw, sysType, hits, timed, expiry, last>>

\* c is inside the call: it holds the mutex and has not run the body
Inside(c) == \E m \in Mutexes : Holds(c, m) /\ ctx[m][c].at = ctx[c]

\* the body of the call of a request goroutine
Body(c) ==
  /\ Inside(c)
  /\ \/ CtxIsBlocked(c)
     \/ CtxIncrement(c)
     \/ CtxRead(c)
     \/ CtxReadLocked(c)
     \/ CtxResync(c)
     \/ CtxBlock(c)
     \/ CtxStore(c)
     \/ CtxIncrementTimeout(c)

\* the body of the call of the cleanup goroutine
SweepBody ==
  /\ Inside("sweeper")
  /\ \/ \E order \in Orders : SweepList(order)
     \/ SweepUnblock
     \/ SweepStorage
     \/ \E order \in Orders : SweepBlocker(order)

\* the Unlock or RUnlock
Release(c) ==
  \E m \in Mutexes :
    /\ Holds(c, m)
    /\ Unlocked(c, m)
    /\ ctx' = [ctx EXCEPT ![m] = MapDel(@, c)]
    /\ UNCHANGED <<now, options, phase, mem, file, idx, fw, sysType, hits, timed, expiry, last>>

\* the steps a goroutine takes by itself once its call has started
Step(c) ==
  \/ Acquire(c)
  \/ IF c = "sweeper" THEN SweepBody ELSE Body(c)
  \/ Release(c)

NextLive ==
  \/ \E c \in Contexts, ip \in Clients, path \in Paths : CtxStart(c, ip, path)
  \/ \E c \in Goroutines : Acquire(c)
  \/ \E c \in Contexts : Body(c)
  \/ SweepBody
  \/ \E c \in Goroutines : Release(c)
  \/ PeriodicSave(TRUE)

\* the scheduler lets every goroutine that can take a step take one
SpecLive ==
  /\ InitLive
  /\ [][NextLive]_vars
  /\ \A c \in Goroutines : WF_vars(Step(c))

(* ------------------------------ properties ---------------------------- *)
\* a HandleRequest on a suspicious path that recorded the hit and returned
\* without an error, for an address with no block behind it
GraceDecision ==
  /\ last.op = "HandleRequest"
  /\ last.ip \in Clients
  /\ last.ret \in {"counted", "timedOut", "banned"}

\* C1: with grace period G, the suspicious hits 1..G of a fresh non-whitelisted
\* address are allowed and hit G+1 is blocked
C1_GraceThreshold ==
  GraceDecision =>
    /\ hits[last.ip] <= options.GracePeriod => ~Decision(last.ret).blocked
    /\ hits[last.ip] = options.GracePeriod + 1 => Decision(last.ret).blocked

NoRecordOf(ip) ==
  /\ ip \notin DOMAIN mem
  /\ \A r \in file : r.ip # ip
  /\ ip \notin DOMAIN idx
  /\ fw[ip] = [in |-> 0, out |-> 0]

\* C2: a whitelisted address never gets a record in the block store nor an
\* enforcement entry, and each of its requests is allowed
C2_WhitelistPrecedence ==
  \A ip \in Whitelist :
    /\ NoRecordOf(ip)
    /\ (last.op = "HandleRequest" /\ last.ip = ip) => ~Decision(last.ret).blocked

C2_Witness ==
  /\ last.op = "HandleRequest"
  /\ last.ip \in Whitelist
  /\ IsMalicious(last.path)
  /\ last.ret = "whitelisted"
  /\ NoRecordOf(last.ip)

\* C3: calculateTimeoutDuration(n) is B*(n+1) in linear mode and B*2^n in
\* geometric mode for every n of 0..MaxN, and B at n = 0 in both modes
C3_Durations ==
  last.op = "calculateTimeoutDuration" =>
    /\ options.TimeoutIncrease = "linear" =>
         last.dur = options.TimeoutDuration * (last.n + 1)
    /\ options.TimeoutIncrease = "geometric" =>
         last.dur = options.TimeoutDuration * 2^(last.n)
    /\ last.n = 0 => last.dur = options.TimeoutDuration

C3_Witness ==
  /\ last.op = "calculateTimeoutDuration"
  /\ options.TimeoutIncrease = "geometric"
  /\ last.n = 3
  /\ last.dur = 8 * options.TimeoutDuration

\* C4: with grace period 0, timeout enabled and linear escalation with base B,
\* the first timed block of an address lasts B and leaves timeout_count = 1,
\* and the second one, after the first has expired, lasts 2*B
C4_SecondOffenceDoubles ==
  [][ ( /\ last'.op = "HandleRequest"
        /\ last'.ret = "timedOut"
        /\ options.GracePeriod = 0
        /\ options.TimeoutIncrease = "linear" ) =>
        LET ip == last'.ip
        IN /\ timed[ip] = 0 =>
                last'.dur = options.TimeoutDuration /\ mem'[ip].tc = 1
           /\ (timed[ip] = 1 /\ expiry[ip] < now) =>
                last'.dur = 2 * options.TimeoutDuration
    ]_vars

C6_BlockNeverReduces ==
  [][ last'.op = "Block" =>
        LET ip == last'.ip
        IN /\ Had(idx, ip) = "permanent" => Had(idx', ip) = "permanent"
           /\ ( /\ Had(idx, ip) = "timed"
                /\ last'.blockType = Timeout
                /\ now + last'.duration < idx[ip] ) => idx'[ip] = idx[ip]
           /\ (Had(idx, ip) = "timed" /\ now < idx[ip]) =>
                \/ Had(idx', ip) = "permanent"
                \/ Had(idx', ip) = "timed" /\ idx'[ip] >= idx[ip]
    ]_vars

C6_Witness ==
  /\ last.op = "Block"
  /\ last.blockType = Timeout
  /\ ~last.err
  /\ last.had = "timed"
  /\ now + last.duration < last.prev
  /\ idx[last.ip] = last.prev

\* C7: a successful Block(Ban) over a timed entry leaves a permanent entry,
\* and a permanent entry stays, with IsBlocked true, until an Unblock of it
C7_BanWins ==
  [][ \A ip \in Clients :
        /\ ( /\ last'.op = "Block" /\ last'.ip = ip
             /\ last'.blockType = Ban /\ ~last'.err
             /\ Had(idx, ip) = "timed" ) => Had(idx', ip) = "permanent"
        /\ ( /\ Had(idx, ip) = "permanent"
             /\ ~(last'.op = "Unblock" /\ last'.ip = ip) ) =>
             Had(idx', ip) = "permanent" /\ IsBlocked(idx', ip, now').blocked
    ]_vars

C7_Witness ==
  /\ last.op = "Block"
  /\ last.blockType = Ban
  /\ ~last.err
  /\ last.had = "timed"
  /\ Had(idx, last.ip) = "permanent"
  /\ IsBlocked(idx, last.ip, now).blocked

\* C8: at a sweep, every non-permanent record whose blocked_until is earlier
\* than now is reported not blocked by IsIPBlocked and is gone after the sweep,
\* and no record IsIPBlocked reports blocked is removed by the sweep
C8_ReadAndSweepAgree ==
  [][ last'.op = "CleanupExpired" =>
        \A ip \in DOMAIN mem :
          /\ (~mem[ip].perm /\ mem[ip].until < now) =>
               ~IsIPBlocked(mem, ip, now).blocked /\ ip \notin DOMAIN mem'
          /\ IsIPBlocked(mem, ip, now).blocked => ip \in DOMAIN mem'
    ]_vars

C8_Witness ==
  /\ last.op = "CleanupExpired"
  /\ last.removed # {}
  /\ \A ip \in last.removed : ip \notin DOMAIN mem

\* C9: after a sweep that returned no error, an address whose timed block had
\* expired before the sweep has no index entry and no drop rule
C9_SweepClearsExpired ==
  (last.op = "CleanupExpired" /\ ~last.err) =>
    \A ip \in Clients :
      (expiry[ip] # ZeroTime /\ expiry[ip] < now) =>
        ip \notin DOMAIN idx /\ fw[ip] = [in |-> 0, out |-> 0]

\* C10: once RestoreBlocks has run and the middleware has been created, the
\* middleware's adapter reports every address blocked whose persisted record is
\* permanent or ends in the future
C10_RestoredBlocksEnforced ==
  (last.op = "New" /\ last.afterRestore) =>
    \A r \in file :
      (r.perm \/ After(r.until, now)) => IsBlocked(idx, r.ip, now).blocked

\* one more INPUT and one more OUTPUT rule for ip in next than in prev
OneMoreRule(prev, next, ip) ==
  next[ip] = [in |-> prev[ip].in + 1, out |-> prev[ip].out + 1]

RestoreSkips(r, t) == ~r.perm /\ r.until <= t

C12_BlockObserved ==
  [][ ( /\ last.op = "HandleRequest"
        /\ Decision(last.ret).blocked
        /\ last'.op = "HandleRequest"
        /\ last'.ip = last.ip
        /\ last.ip \in DOMAIN mem
        /\ (mem[last.ip].perm \/ now < mem[last.ip].until) ) =>
        Decision(last'.ret).blocked
    ]_vars

\* the calls of SpecConc that crossed the grace threshold and blocked
Crossers == {c \in Contexts : ctx[c].ret \in {"timedOut", "banned"}}

\* C13: of several HandleRequest calls running together for one fresh address
\* on suspicious paths, at most one crosses the grace threshold: the timeout
\* count of the record rises by one and one rule per direction is installed
C13_OneCrossing ==
  \A ip \in Clients :
    /\ Cardinality({c \in Crossers : ctx[c].ip = ip}) <= 1
    /\ ip \in DOMAIN mem => mem[ip].tc <= 1
    /\ fw[ip].in <= 1 /\ fw[ip].out <= 1

\* the record a restart would load for ip from the file, NilStatus for none
Reloaded(ip) == IF ip \in DOMAIN Load(file) THEN Load(file)[ip] ELSE NilStatus
\* the record the running process holds for ip
Held(ip) == IF ip \in DOMAIN mem THEN mem[ip] ELSE NilStatus

\* C14: when HandleRequest has returned, every change it made to the record of
\* the address is in the file: a reload yields the request count, timeout
\* count, blocked-until and permanence the process holds
C14_ChangesOnDisk ==
  last.op = "HandleRequest" =>
    /\ Reloaded(last.ip).rc = Held(last.ip).rc
    /\ Reloaded(last.ip).tc = Held(last.ip).tc
    /\ Reloaded(last.ip).until = Held(last.ip).until
    /\ Reloaded(last.ip).perm = Held(last.ip).perm

\* the block state the store holds for ip at time t: a permanent record, or
\* one whose blocked-until lies ahead
StoredBlock(ip, t) == ip \in DOMAIN mem /\ (mem[ip].perm \/ After(mem[ip].until, t))

\* C15: when the grace test passed and the adapter's Block failed,
\* HandleRequest has still written the intended block to the store
C15_BlockStoredOnAdapterFailure ==
  (last.op = "HandleRequest" /\ last.ret = "blockError") => StoredBlock(last.ip, now)

\* C16: when the grace test passed, the adapter's Block succeeded and the
\* write of the block to the store failed, HandleRequest returns Block together
\* with the failure as its error value
C16_StoreFailureReturned ==
  (last.op = "HandleRequest" /\ last.saveErr) =>
    Decision(last.ret).blocked /\ Decision(last.ret).err

\* the entry of ip in the index covers a Block(blockType, duration) asked at
\* time t: it is permanent, or the call is a Timeout and the entry has at least
\* the duration asked for left to run
EntryCovers(ix, ip, blockType, duration, t) ==
  /\ ip \in DOMAIN ix
  /\ \/ IsZero(ix[ip])
     \/ blockType = Timeout /\ ix[ip] - t >= duration

\* C17: Block for an address whose entry has an equal or greater remaining
\* duration, or is permanent, issues no command: the rules of the packet
\* filter are the same before and after the call
C17_CoveredBlockIssuesNothing ==
  [][ ( /\ last'.op = "Block"
        /\ EntryCovers(idx, last'.ip, last'.blockType, last'.duration, now) ) =>
        fw' = fw
    ]_vars

\* C18: a successful Unblock of an address the index holds leaves no inbound
\* and no outbound rule for it in the packet filter, however many successful
\* Block calls came before
C18_UnblockRemovesEveryRule ==
  [][ ( /\ last'.op = "Unblock"
        /\ ~last'.err
        /\ last'.ip \in DOMAIN idx ) =>
        fw'[last'.ip] = [in |-> 0, out |-> 0]
    ]_vars

\* C19: when Block runs the commands and the one for the inbound or the
\* outbound direction fails, Block returns an error, the index is as it was
\* and the packet filter holds no rule the call put in for one direction only
C19_FailedBlockLeavesNothing ==
  [][ \A ip \in Clients, blockType \in {Timeout, Ban}, duration \in 0..MaxDur,
         cmd \in CmdOutcomes \ {AllOk} :
        ( /\ sysType = "linux"
          /\ ~BlockKeepsExisting(idx, ip, blockType, duration, now)
          /\ ApiBlock(ip, blockType, duration, cmd) ) =>
          /\ last'.err
          /\ idx' = idx
          /\ fw' = fw
    ]_vars

\* C20: Unblock of an address the index has no entry for returns nil, issues
\* no command (the packet filter is as it was) and leaves the index unchanged
C20_UnblockOfAbsentIsNoOp ==
  [][ (last'.op = "Unblock" /\ last'.ip \notin DOMAIN idx) =>
        /\ ~last'.err
        /\ fw' = fw
        /\ idx' = idx
    ]_vars

\* an Unblock that found no entry, for an address the packet filter has a rule for
C20_Witness ==
  /\ last.op = "Unblock"
  /\ last.had = "absent"
  /\ ~last.err
  /\ fw[last.ip].in > 0

\* C21: no HandleRequest call ends in a panic: the status IsIPBlocked returned
\* is never read while it is nil, whatever the other goroutine does in between
C21_NeverPanics == \A c \in Contexts : ctx[c].ret # "panic"

\* C22: within one process lifetime without failures the store reports an
\* address blocked exactly when the adapter's IsBlocked does, at every instant
C22_StoreAndAdapterAgree ==
  \A ip \in Clients : IsIPBlocked(mem, ip, now).blocked = IsBlocked(idx, ip, now).blocked

\* C23: when the IncrementRequestCount calls made for an address have all
\* returned, its request count is the number of those calls: no update is lost
C23_NoLostIncrement ==
  \A ip \in IPs : InProgress(ip) = {} => Held(ip).rc = hits[ip]

\* calls for one address that ran together have all returned
C23_Witness ==
  /\ last.op = "IncrementRequestCount"
  /\ last.overlapped
  /\ InProgress(last.ip) = {}
  /\ hits[last.ip] >= 2

\* a system type none of the branches of Block and Unblock handles
Unsupported == sysType \notin {"linux", "darwin", "windows"}

\* C24: with an unsupported system type every Block call and every Unblock
\* call on the adapter returns an error and leaves the index empty
C24_UnsupportedAlwaysFails ==
  [][ (Unsupported /\ last'.op \in {"Block", "Unblock"}) =>
        last'.err /\ idx' = EmptyMap
    ]_vars

\* C24 as the code has it: the adapter is created with an empty index; with an
\* unsupported system type every Block call returns an error, every Unblock
\* call finds no entry and returns nil, and the index and the packet filter
\* stay as they were
C24_UnsupportedBlockFails ==
  /\ [](Unsupported => idx = EmptyMap /\ fw = NoRules)
  /\ [][ Unsupported =>
           /\ last'.op = "Block" => last'.err
           /\ last'.op = "Unblock" => ~last'.err
       ]_vars

\* an Unblock on an unsupported system type has returned nil
C24_Witness ==
  /\ Unsupported
  /\ last.op = "Unblock"
  /\ ~last.err

\* C25: a request whose client address resolves to the empty string is allowed
\* through without effect: HandleRequest returns Allow and no error, no record
\* is kept under the empty key and no enforcement call is made
C25_EmptyAddressAllowed ==
  (last.op = "HandleRequest" /\ last.ip = "") =>
    /\ last.ret \in {"whitelisted", "notMalicious", "counted"}
    /\ "" \notin DOMAIN mem
    /\ "" \notin DOMAIN idx
    /\ fw[""] = [in |-> 0, out |-> 0]

\* the middleware was just created without RestoreBlocks before it, and the
\* record loaded for ip is a permanent block or a block not yet expired
LoadedBlock(ip) ==
  /\ last.op = "New"
  /\ ~last.afterRestore
  /\ ip \in DOMAIN mem
  /\ ~ReadExpired(mem[ip], now)

\* the index entry of the block the record st stands for
EntryOf(st) == IF st.perm THEN ZeroTime ELSE st.until

C27_SweepKeepsLiveBlock ==
  (ctx["sweeper"].pc = "done" /\ ctx["g1"].pc = "done") =>
    \A ip \in Clients :
      (ip \in DOMAIN mem /\ (mem[ip].perm \/ After(mem[ip].until, now))) =>
        IsBlocked(idx, ip, now).blocked

\* C28: after a suspicious hit that was allowed within the grace period, the
\* store holds a record for the address whose request count is the number of
\* suspicious hits of the address handled so far
C28_HitsRecorded ==
  (last.op = "HandleRequest" /\ last.ret = "counted") =>
    /\ last.ip \in DOMAIN mem
    /\ mem[last.ip].rc = hits[last.ip]

\* C29: the timeout count of an address is the number of timed blocks applied
\* to it so far and never decreases: the k-th timed block is computed with
\* n = k - 1 and leaves the count at k
C29_TimeoutCountTracksBlocks ==
  [][ \A ip \in Clients :
        /\ (ip \in DOMAIN mem /\ ip \in DOMAIN mem') => mem'[ip].tc >= mem[ip].tc
        /\ (last'.op = "HandleRequest" /\ last'.ip = ip /\ last'.ret = "timedOut") =>
             /\ last'.n = timed[ip]
             /\ mem'[ip].tc = timed[ip] + 1
    ]_vars

\* C30: for a whitelisted address HandleRequest returns Allow and no error
\* whatever the store and the adapter hold for it, and leaves the store, the
\* file, the index and the packet filter as they were
C30_WhitelistAbsolute ==
  [][ (last'.op = "HandleRequest" /\ last'.ip \in Whitelist) =>
        /\ ~Decision(last'.ret).blocked
        /\ ~Decision(last'.ret).err
        /\ mem' = mem /\ file' = file
        /\ idx' = idx /\ fw' = fw
    ]_vars

\* a request on a suspicious path from a whitelisted address that the store
\* holds as banned and the index holds as blocked
C30_Witness ==
  /\ last.op = "HandleRequest"
  /\ last.ip \in Whitelist
  /\ last.path \in Patterns
  /\ last.ip \in DOMAIN mem
  /\ mem[last.ip].perm
  /\ last.ip \in DOMAIN idx
  /\ IsBlocked(idx, last.ip, now).blocked

\* C31: a HandleRequest on a path that is not suspicious, from an address that
\* is not whitelisted and that the adapter reports as not blocked, returns
\* Allow and leaves the store's map, the file, the adapter's index and the
\* packet filter as they were
C31_NonSuspiciousNoEffect ==
  [][ ( /\ last'.op = "HandleRequest"
        /\ last'.ip \notin Whitelist
        /\ last'.path \notin Patterns
        /\ last'.ret # "alreadyBlocked" ) =>
        /\ ~Decision(last'.ret).blocked
        /\ ~Decision(last'.ret).err
        /\ mem' = mem /\ file' = file
        /\ idx' = idx /\ fw' = fw
    ]_vars

\* the index holds a permanent entry for ip or one that has not ended yet
Running(ip) ==
  ip \in DOMAIN idx /\ (idx[ip] = ZeroTime \/ now < idx[ip])

\* C32: while the adapter's index holds a running entry for a non-whitelisted
\* address, a HandleRequest for it returns Block without error whatever the
\* path, and leaves the records of the store (request count and timeout
\* count included), the file, the index and the packet filter as they were
C32_BlockedStaysBlocked ==
  [][ (last'.op = "HandleRequest" /\ last'.ip \notin Whitelist /\ Running(last'.ip)) =>
        /\ Decision(last'.ret).blocked
        /\ ~Decision(last'.ret).err
        /\ mem' = mem /\ file' = file
        /\ idx' = idx /\ fw' = fw
        /\ hits' = hits
    ]_vars

\* a request on a path that is not suspicious, and one on a suspicious path,
\* from an address under a running timed block, a clock step after the block
C32_Witness ==
  /\ last.op = "HandleRequest"
  /\ last.ip \in Clients
  /\ last.ret = "alreadyBlocked"
  /\ last.ip \in DOMAIN idx
  /\ idx[last.ip] # ZeroTime
  /\ now > 1 /\ now < idx[last.ip]
  /\ mem[last.ip].rc = 1

\* the store holds a permanent record for ip and the index a permanent entry
PermanentBlock(m, ix, ip) ==
  /\ ip \in DOMAIN m
  /\ m[ip].perm
  /\ ip \in DOMAIN ix
  /\ ix[ip] = ZeroTime

\* C33: a permanent block is exempt from expiry: once the store holds a
\* permanent record for an address and the index a permanent entry, time
\* passing, the reads (IsIPBlocked, IsBlocked), the sweeps (of the store, of
\* the adapter, of the middleware), the periodic save and further Block calls
\* leave both in place and permanent; they go only by an unblock call for the
\* address (or a BlockIP call that rewrites the record)
C33_PermanentExempt ==
  [][ \A ip \in IPs :
        ( /\ PermanentBlock(mem, idx, ip)
          /\ ~(last'.op \in {"UnblockIP", "Unblock", "BlockIP"} /\ last'.ip = ip) ) =>
          PermanentBlock(mem', idx', ip)
    ]_vars

\* the store has just been swept, after a clock step, with a permanent record
\* and a permanent entry standing for the client
C33_Witness ==
  /\ last.op \in {"storage.CleanupExpired", "CleanupExpired"}
  /\ now > 1
  /\ \E ip \in Clients :
       /\ ip \in DOMAIN mem
       /\ mem[ip].perm
       /\ ip \in DOMAIN idx
       /\ idx[ip] = ZeroTime

\* the call of c has returned (with a decision, or out of the dereference of
\* middleware.go:218) and c holds no mutex
Completed(c) == ctx[c].pc = "done" /\ HoldsNone(c)

\* C34: under a fair scheduler every HandleRequest that has started returns
\* and the sweep runs to its end, with no mutex left held, whatever the
\* interleaving of the request goroutines, the cleanup goroutine and the save
\* goroutine: no goroutine waits for s.mutex or b.mutex for ever
C34_AlwaysCompletes ==
  /\ \A c \in Contexts : (ctx[c].pc # "idle") ~> Completed(c)
  /\ <>Completed("sweeper")

\* a request goroutine between the RUnlock and the Lock of IsIPBlocked while
\* the cleanup goroutine holds s.mutex for storage.CleanupExpired and the
\* other request goroutine waits for it too
C34_Witness ==
  /\ ctx["g1"].pc = "readLocked"
  /\ HoldsNone("g1")
  /\ Holds("sweeper", "s.mutex")
  /\ ctx["g2"].pc = "increment"
  /\ HoldsNone("g2")

\* C35: every record of the store's map, and every record of the file the
\* store wrote, has a request count of at least 1, after any sequence of
\* IncrementRequestCount, BlockIP, IncrementTimeoutCount, UnblockIP,
\* IsIPBlocked, CleanupExpired, Save and Load
C35_RequestCountPositive ==
  /\ \A ip \in DOMAIN mem : mem[ip].rc >= 1
  /\ \A r \in file : r.rc >= 1

\* a record created by BlockIP, with no hit counted for it, has been written
\* to the file and loaded again
C35_Witness ==
  /\ last.op = "Load"
  /\ \E ip \in DOMAIN mem :
       /\ mem[ip].perm
       /\ mem[ip].rc = 1
       /\ mem[ip].tc = MaxCalls

\* C36: every step that changes the adapter's index (insert, replace, delete)
\* is taken by a goroutine holding b.mutex exclusively, the removal of an
\* expired entry inside IsBlocked included
C36_IndexWritesExclusive ==
  [][ idx' # idx =>
        \E c \in Goroutines : Holds(c, "b.mutex") /\ ctx["b.mutex"][c].mode = "w"
    ]_vars

\* C37: in one process lifetime the packet filter holds a drop rule for an
\* address only if the adapter's index holds an entry for it
C37_RuleImpliesEntry ==
  \A ip \in IPs :
    (fw[ip].in > 0 \/ fw[ip].out > 0) => ip \in DOMAIN idx

\* C38: the save goroutine reads the store's map for a flush only while no
\* other goroutine holds s.mutex for writing: a flush never runs while a
\* request or the sweep is inside a call that modifies the map
C38_FlushUnderMutex ==
  [][ last'.op = "Save" =>
        \A c \in Goroutines :
          Holds(c, "s.mutex") => ctx["s.mutex"][c].mode = "r"
    ]_vars

\* a record that only counts hits within the grace period: never blocked,
\* blocked_until unset and is_permanent false (json.go:143-148)
CountedOnly(r) == ~r.perm /\ r.until = ZeroTime

====
